---- MODULE Spec2Model ----
(***************************************************************************)
(* Model of OmnAIView-python: the backend strategies of datasources.py     *)
(* (registry, handshake builder, initial-frame gate, frame decoder) and    *)
(* the session driver of src/main.py (connect dialog, device dialog,       *)
(* websocket worker thread, plot consumer).                                *)
(*                                                                         *)
(* Numbers carried by frames (timestamps in seconds, sample values) are    *)
(* fixed-point integers with four decimals: n stands for n / Frac, so      *)
(* 11236 is the text "1.1236".                                             *)
(***************************************************************************)
EXTENDS Integers, Sequences, FiniteSets, TLC

\* ------------------------------------------------------------------------
\* Bounds of the model
\* ------------------------------------------------------------------------
MaxWorkers == 2       \* websocket worker threads started in one run
MaxConnects == 2      \* submissions of the connect dialog in one run
MaxFrames == 2        \* frames a server sends on one stream

\* ------------------------------------------------------------------------
\* Program constants
\* ------------------------------------------------------------------------
MsPerSec == 1000      \* datasources.py:155  int(ts_UNIX * 1000)
NaN == -1             \* main.py:227  float("nan"), outside the sample values
Frac == 10 * MsPerSec \* resolution of the fixed-point numbers

DevData == "DevDataServer"
OmnAI == "OmnAIScope DataServer"

\* _registry after import of datasources.py: name -> class, in registration order
available_sources == <<DevData, OmnAI>>
Backends == {available_sources[i] : i \in DOMAIN available_sources}

\* class attribute `formats` of each strategy
formats(kind) == IF kind = DevData THEN <<"json", "csv">>
                 ELSE <<"json", "csv", "binary">>

\* server_sends_initial_msg: False in the base class, True for OmnAIScope
server_sends_initial_msg(self) == self.kind = OmnAI

\* ------------------------------------------------------------------------
\* Small sequence helpers
\* ------------------------------------------------------------------------
Min(a, b) == IF a <= b THEN a ELSE b
Range(s) == {s[i] : i \in DOMAIN s}

\* dict(zip(keys, vals)): stops at the shorter sequence, a repeated key keeps
\* its last value
ZipLast(keys, vals, k) ==
    CHOOSE i \in 1..Min(Len(keys), Len(vals)) :
        /\ keys[i] = k
        /\ \A j \in 1..Min(Len(keys), Len(vals)) : keys[j] = k => j <= i
Zip(keys, vals) ==
    [k \in {keys[i] : i \in 1..Min(Len(keys), Len(vals))} |->
        vals[ZipLast(keys, vals, k)]]

\* ------------------------------------------------------------------------
\* Frames: the text (or bytes) of one websocket message
\*   json_self  {"data":[{"timestamp":ts,"value":[vals]}],"devices":[devs]}
\*   json_pos   {"timestamp":ts,"data":[[vals]]}
\*   json_nots  {"data":[[vals]]}            (object without a timestamp)
\*   json_arr   [vals]                       (a JSON array)
\*   json_bad   {oops                        (opens an object, not JSON)
\*   csv        ts,v1,...,vk                 (k >= 1, every field numeric)
\*   csv_bad    ts,abc                       (a non-numeric field)
\*   text       hello                        (no comma, not numeric)
\*   num        ts                           (one numeric field, no comma)
\*   bin        b"\xff\x00"                  (bytes, not UTF-8)
\*   bytes      b"\x00\x01"                  (bytes that decode as UTF-8)
\* ------------------------------------------------------------------------
Frame(shape, ts, vals, devs) ==
    [shape |-> shape, ts |-> ts, vals |-> vals, devs |-> devs]

IsBytes(raw) == raw.shape \in {"bin", "bytes"}
Utf8(raw) == raw.shape # "bin"

\* raw[0]
FirstChar(raw) ==
    CASE raw.shape \in {"json_self", "json_pos", "json_nots", "json_bad"} -> "{"
      [] raw.shape = "json_arr" -> "["
      [] raw.shape \in {"csv", "csv_bad", "num"} -> "1"
      [] raw.shape = "text" -> "h"
      [] raw.shape = "bytes" -> "\\x00"
      [] OTHER -> "\\xff"

\* "," in raw
HasComma(raw) ==
    CASE raw.shape \in {"json_self", "json_pos", "csv", "csv_bad"} -> TRUE
      [] raw.shape \in {"json_nots", "json_arr"} -> Len(raw.vals) > 1
      [] OTHER -> FALSE

\* json.loads(raw) succeeds
JsonValid(raw) == raw.shape \in {"json_self", "json_pos", "json_nots", "json_arr"}

\* the keys of the parsed object (a parsed array has none: `"data" in obj`
\* is then a membership test on its numbers)
JsonKeys(raw) ==
    CASE raw.shape = "json_self" -> {"data", "devices"}
      [] raw.shape = "json_pos" -> {"timestamp", "data"}
      [] raw.shape = "json_nots" -> {"data"}
      [] OTHER -> {}

\* float(parts[0]) and list(map(float, parts[1:])) succeed on raw.split(",")
FieldsNumeric(raw) == raw.shape \in {"csv", "num"}

\* list(map(float, parts[1:]))
CsvValues(raw) == IF raw.shape = "csv" THEN raw.vals ELSE <<>>

\* ------------------------------------------------------------------------
\* Results of parse_ws_msg: the returned (ts, dict) or the exception raised,
\* with the branches of the function that ran
\* ------------------------------------------------------------------------
Returned(ts, values, path) ==
    [ok |-> TRUE, err |-> "none", ts |-> ts, values |-> values, path |-> path]
Raised(err, path) ==
    [ok |-> FALSE, err |-> err, ts |-> 0, values |-> <<>>, path |-> path]

\* ------------------------------------------------------------------------
\* int(ts_UNIX * 1000) on binary floating point.  ts_UNIX is the double
\* nearest to the decimal number of the frame, the product is rounded to a
\* double again, and int() cuts the fraction off (towards zero).  A natural
\* beyond the integers of TLC is a sequence of bits, most significant first,
\* or, for multiplying and dividing, a sequence of digits to the base Limb.
\* ------------------------------------------------------------------------
Mantissa == 53        \* significant bits of a double
LimbBits == 15
Limb == 2 ^ LimbBits
FracLimbs == 5        \* digits after the point the decimal number is expanded to

\* the w-bit digit n as bits
DigitBits(n, w) == [i \in 1..w |-> (n \div (2 ^ (w - i))) % 2]

RECURSIVE BitsValue(_)
BitsValue(b) ==
    IF b = <<>> THEN 0
    ELSE IF Len(b) = 1 THEN b[1]
    ELSE LET h == Len(b) \div 2
         IN  BitsValue(SubSeq(b, 1, h)) * (2 ^ (Len(b) - h))
                + BitsValue(SubSeq(b, h + 1, Len(b)))

StripZeros(b) ==
    IF \A i \in DOMAIN b : b[i] = 0 THEN <<>>
    ELSE SubSeq(b, CHOOSE i \in DOMAIN b :
                       b[i] # 0 /\ \A j \in 1..(i - 1) : b[j] = 0, Len(b))

\* digits to bits and bits to digits
LimbsToBits(l) ==
    StripZeros([j \in 1..(LimbBits * Len(l)) |->
                   DigitBits(l[((j - 1) \div LimbBits) + 1], LimbBits)[((j - 1) % LimbBits) + 1]])
BitsToLimbs(b) ==
    LET n == (Len(b) + LimbBits - 1) \div LimbBits
        padded == [i \in 1..(n * LimbBits - Len(b)) |-> 0] \o b
    IN  [k \in 1..n |-> BitsValue(SubSeq(padded, (k - 1) * LimbBits + 1, k * LimbBits))]

\* long division of the digits l, from digit i on, by the small number d:
\* quotient digits and remainder
RECURSIVE DivFrom(_, _, _, _, _)
DivFrom(l, d, i, rem, acc) ==
    IF i > Len(l) THEN [q |-> acc, r |-> rem]
    ELSE LET cur == rem * Limb + l[i]
         IN  DivFrom(l, d, i + 1, cur % d, Append(acc, cur \div d))
DivLimbs(l, d) == DivFrom(l, d, 1, 0, <<>>)

\* l * c for a small number c, by carries from the last digit on
RECURSIVE MulFrom(_, _, _, _, _)
MulFrom(l, c, i, carry, acc) ==
    IF i = 0 THEN <<carry>> \o acc
    ELSE LET cur == l[i] * c + carry
         IN  MulFrom(l, c, i - 1, cur \div Limb, <<cur % Limb>> \o acc)
MulLimbs(l, c) == MulFrom(l, c, Len(l), 0, <<>>)

\* b + 1
IncBits(b) ==
    IF \A i \in DOMAIN b : b[i] = 1 THEN <<1>> \o [i \in DOMAIN b |-> 0]
    ELSE LET z == CHOOSE i \in DOMAIN b :
                      b[i] = 0 /\ \A j \in (i + 1)..Len(b) : b[j] = 1
         IN  [i \in DOMAIN b |-> IF i < z THEN b[i] ELSE IF i = z THEN 1 ELSE 0]

\* Round to nearest, ties to even, of the number whose leading bits are b
\* (inexact says that it has further nonzero bits below b) to Mantissa
\* significant bits: the kept bits m and the number of bits of b dropped
RoundToDouble(b, inexact) ==
    IF Len(b) <= Mantissa THEN [m |-> b, dropped |-> 0]
    ELSE LET kept == SubSeq(b, 1, Mantissa)
             half == b[Mantissa + 1] = 1
             below == inexact \/ \E i \in (Mantissa + 2)..Len(b) : b[i] = 1
             up == half /\ (below \/ kept[Mantissa] = 1)
         IN  [m |-> IF up THEN IncBits(kept) ELSE kept,
              dropped |-> Len(b) - Mantissa]

\* int(x * 1000) for the positive decimal number x = n / Frac
IntMsPositive(n) ==
    LET digits == <<n \div (Limb * Limb), (n \div Limb) % Limb, n % Limb>>
                     \o [i \in 1..FracLimbs |-> 0]
        expand == DivLimbs(digits, Frac)
        x == RoundToDouble(LimbsToBits(expand.q), expand.r # 0)
        product == RoundToDouble(LimbsToBits(MulLimbs(BitsToLimbs(x.m), MsPerSec)),
                                 FALSE)
        point == FracLimbs * LimbBits - x.dropped - product.dropped
    IN  BitsValue(SubSeq(product.m, 1, Len(product.m) - point))

\* int(ts_UNIX * 1000), as a fixed-point number
FloatIntMs(ts) ==
    IF ts = 0 THEN 0
    ELSE IF ts > 0 THEN IntMsPositive(ts) * Frac
    ELSE (0 - IntMsPositive(0 - ts)) * Frac

\* timestamps (seconds) the frames of the catalogues carry, and the
\* conversion of each, computed once
Stamps == {10000, 10010, 11236}
StampMs == [ts \in Stamps \cup {0} |-> FloatIntMs(ts)]
IntMs(ts) == IF ts \in DOMAIN StampMs THEN StampMs[ts] ELSE FloatIntMs(ts)

\* DevDataServerStrategy.parse_ws_msg
DevDataServer_parse_ws_msg(self, raw) ==
    IF IsBytes(raw) /\ ~Utf8(raw) THEN Raised("UnicodeDecodeError", <<>>)
    ELSE IF FirstChar(raw) = "{" THEN
        IF ~JsonValid(raw) THEN Raised("JSONDecodeError", <<"json">>)
        ELSE IF "timestamp" \notin JsonKeys(raw) THEN Raised("KeyError", <<"json">>)
        ELSE IF "data" \notin JsonKeys(raw) THEN Raised("KeyError", <<"json">>)
        ELSE IF ~self.bound THEN Raised("AttributeError", <<"json">>)
        ELSE Returned(IntMs(raw.ts), Zip(self.uuids, raw.vals), <<"json">>)
    ELSE
        IF ~FieldsNumeric(raw) THEN Raised("ValueError:float", <<"csv">>)
        ELSE Raised("UnboundLocalError", <<"csv">>)

\* OmnAIScopeStrategy.parse_ws_msg
OmnAIScope_parse_ws_msg(self, raw) ==
    LET json == FirstChar(raw) \in {"{", "["}
        pre == IF json THEN <<"json">> ELSE <<>>
    IN  IF json /\ ~JsonValid(raw) THEN Raised("JSONDecodeError", <<"json">>)
        ELSE IF json /\ {"data", "devices"} \subseteq JsonKeys(raw) THEN
            Returned(raw.ts, Zip(raw.devs, raw.vals), <<"json">>)
        ELSE IF IsBytes(raw) /\ ~Utf8(raw) THEN Raised("UnicodeDecodeError", pre)
        ELSE IF HasComma(raw) THEN
            IF ~FieldsNumeric(raw) THEN Raised("ValueError:float", pre \o <<"csv">>)
            ELSE IF ~self.bound THEN Raised("AttributeError", pre \o <<"csv">>)
            ELSE Returned(raw.ts, Zip(self.uuids, CsvValues(raw)), pre \o <<"csv">>)
        ELSE Raised("ValueError:unsupported", pre \o <<"reject">>)

parse_ws_msg(self, raw) ==
    IF self.kind = DevData THEN DevDataServer_parse_ws_msg(self, raw)
    ELSE OmnAIScope_parse_ws_msg(self, raw)

\* ------------------------------------------------------------------------
\* Strategy instances (get_strategy, build_ws_uri, build_subscribe_cmd)
\* ------------------------------------------------------------------------
\* self.strategy = None before the first connect
NoStrategy == [id |-> 0, kind |-> "none", uuids |-> <<>>, bound |-> FALSE]

\* get_strategy(name): _registry[name](), a new instance without _uuids;
\* id tells the instances of one run apart
get_strategy(name, id) == [id |-> id, kind |-> name, uuids |-> <<>>, bound |-> FALSE]

\* build_ws_uri: ws://<host_port>/v1/subscribe_ws or ws://<host_port>/ws
build_ws_uri(self, host) == [kind |-> self.kind, host |-> host]

\* build_subscribe_cmd: the instance after `self._uuids = uuids` ...
RememberOrder(self, uuids) == [self EXCEPT !.uuids = uuids, !.bound = TRUE]
\* Text is a sequence of characters.  str(rate): the decimal digits of rate
DecDigits == <<"0", "1", "2", "3", "4", "5", "6", "7", "8", "9">>
RECURSIVE Str(_)
Str(n) == IF n < 0 THEN <<"-">> \o Str(0 - n)
          ELSE IF n < 10 THEN <<DecDigits[n + 1]>>
          ELSE Append(Str(n \div 10), DecDigits[(n % 10) + 1])

\* the characters of a format name; a device uuid is one character long in
\* this model
Chars(word) ==
    CASE word = "json" -> <<"j", "s", "o", "n">>
      [] word = "csv" -> <<"c", "s", "v">>
      [] word = "binary" -> <<"b", "i", "n", "a", "r", "y">>
      [] OTHER -> <<word>>

\* " ".join(words)
RECURSIVE Join(_)
Join(words) ==
    IF words = <<>> THEN <<>>
    ELSE IF Len(words) = 1 THEN words[1]
    ELSE words[1] \o <<" ">> \o Join(Tail(words))

\* Mutant of build_subscribe_cmd: the rate is written in front of the uuids
build_subscribe_cmd_rate_first(uuids, rate, fmt) ==
    [uuids |-> uuids, rate |-> rate, fmt |-> fmt,
     text |-> Join(<<Str(rate)>> \o [i \in DOMAIN uuids |-> Chars(uuids[i])]
                   \o <<Chars(fmt)>>)]

\* ... and the payload " ".join(uuids + [str(rate), fmt]) in `text`, kept
\* with the arguments of the call
build_subscribe_cmd(uuids, rate, fmt) ==
    [uuids |-> uuids, rate |-> rate, fmt |-> fmt,
     text |-> Join([i \in DOMAIN uuids |-> Chars(uuids[i])]
                   \o <<Str(rate), Chars(fmt)>>)]

\* ------------------------------------------------------------------------
\* Strategy registry (_registry, register, available_sources, get_strategy)
\* ------------------------------------------------------------------------
\* a strategy class: the class and its `name` attribute
Class(cls, name) == [cls |-> cls, name |-> name]
DevDataServerStrategy == Class("DevDataServerStrategy", DevData)
OmnAIScopeStrategy == Class("OmnAIScopeStrategy", OmnAI)

\* _registry is a dict: its entries in insertion order, one per key
HasKey(registry, name) == \E i \in DOMAIN registry : registry[i].name = name
KeyIndex(registry, name) == CHOOSE i \in DOMAIN registry : registry[i].name = name

\* register with the first registration of a name kept
register_first_wins(registry, cls) ==
    IF HasKey(registry, cls.name) THEN registry ELSE Append(registry, cls)

\* register(cls): _registry[cls.name] = cls; a new key goes last, a key that
\* is present keeps its place and gets the new class
register(registry, cls) ==
    IF HasKey(registry, cls.name)
    THEN [registry EXCEPT ![KeyIndex(registry, cls.name)] = cls]
    ELSE Append(registry, cls)

\* available_sources() on a given registry: list(_registry.keys())
registry_keys(registry) == [i \in DOMAIN registry |-> registry[i].name]

\* _registry[name]
registry_item(registry, name) == registry[KeyIndex(registry, name)]

\* cls(): a new object of the class, without _uuids
construct(cls) ==
    [cls |-> cls.cls, kind |-> cls.name, uuids |-> <<>>, bound |-> FALSE]

\* the store of objects after a wrongly shared instance per class is handed out
instantiate_shared(heap, cls) ==
    IF \E i \in DOMAIN heap : heap[i].cls = cls.cls
    THEN [heap |-> heap, id |-> CHOOSE i \in DOMAIN heap : heap[i].cls = cls.cls]
    ELSE [heap |-> Append(heap, construct(cls)), id |-> Len(heap) + 1]

\* _registry[name](): the call allocates a new object; `heap` is the store of
\* the objects made so far and `id` the reference the caller gets
instantiate(heap, cls) ==
    [heap |-> Append(heap, construct(cls)), id |-> Len(heap) + 1]

\* the registry once datasources.py is imported: the two @register decorators
\* ran in source order
ImportLog == <<DevDataServerStrategy, OmnAIScopeStrategy>>
ImportedRegistry == register(register(<<>>, ImportLog[1]), ImportLog[2])

\* ------------------------------------------------------------------------
\* Device discovery (fetch_devices, _to_hex)
\*
\* A JSON object is a record with the set `has` of the keys it carries; a
\* field whose key is not in `has` is not in the object. A colour is a dict
\* {"r":..,"g":..,"b":..} (tag "dict") or a string (tag "str", its characters
\* in `text`).
\* ------------------------------------------------------------------------
HexDigits == <<"0", "1", "2", "3", "4", "5", "6", "7",
               "8", "9", "a", "b", "c", "d", "e", "f">>

\* format(n, "x") for n >= 0
RECURSIVE Hex(_)
Hex(n) == IF n < 16 THEN <<HexDigits[n + 1]>>
          ELSE Append(Hex(n \div 16), HexDigits[(n % 16) + 1])

\* zero padding on the left up to width w: the "02" and "06" of the format specs
RECURSIVE ZeroPad(_, _)
ZeroPad(s, w) == IF Len(s) >= w THEN s ELSE ZeroPad(<<"0">> \o s, w)

Fmt02x(n) == ZeroPad(Hex(n), 2)      \* f"{n:02x}"
Fmt06x(n) == ZeroPad(Hex(n), 6)      \* f"{n:06x}"

RgbDict(has, r, g, b) == [tag |-> "dict", has |-> has, r |-> r, g |-> g, b |-> b, text |-> <<>>]
ColourStr(text) == [tag |-> "str", has |-> {}, r |-> 0, g |-> 0, b |-> 0, text |-> text]
EmptyDict == RgbDict({}, 0, 0, 0)

\* outcome of a call that returns a string or raises
StrReturned(text) == [ok |-> TRUE, err |-> "none", text |-> text]
StrRaised(err) == [ok |-> FALSE, err |-> err, text |-> <<>>]

\* DataSourceStrategy._to_hex
to_hex(maybe_rgb) ==
    IF maybe_rgb.tag = "dict" THEN
        IF {"r", "g", "b"} \subseteq maybe_rgb.has
        THEN StrReturned(<<"#">> \o Fmt02x(maybe_rgb.r) \o Fmt02x(maybe_rgb.g)
                                 \o Fmt02x(maybe_rgb.b))
        ELSE StrRaised("KeyError")
    ELSE StrReturned(maybe_rgb.text)

\* col.get(k, 0)
GetOr0(col, k) ==
    IF k \notin col.has THEN 0
    ELSE IF k = "r" THEN col.r ELSE IF k = "g" THEN col.g ELSE col.b

\* Device(uuid=..., color=...)
Device(uuid, color) == [uuid |-> uuid, color |-> color]

\* outcome of fetch_devices: the returned list or the exception that leaves it
FetchReturned(devices) == [ok |-> TRUE, err |-> "none", devices |-> devices]
FetchRaised(err) == [ok |-> FALSE, err |-> err, devices |-> <<>>]

\* the part both strategies share: requests.get(url, timeout=5),
\* resp.raise_for_status(), resp.json()
HttpFailure(resp) ==
    IF resp.net # "ok" THEN "ConnectionError"
    ELSE IF resp.status >= 400 THEN "HTTPError"
    ELSE IF ~resp.body.json THEN "JSONDecodeError"
    ELSE "none"

\* the URL of the GET
fetch_url(kind, host_port) ==
    [host |-> host_port, path |-> IF kind = DevData THEN "/v1/get_devices" ELSE "/UUID"]

\* DevDataServerStrategy.fetch_devices
DevDataServer_fetch_devices(resp) ==
    IF HttpFailure(resp) # "none" THEN FetchRaised(HttpFailure(resp))
    ELSE IF "datastreams" \notin resp.body.has THEN FetchRaised("KeyError")
    ELSE LET list == resp.body.list
             bad(ds) == \/ "UUID" \notin ds.has
                        \/ "color" \notin ds.has
                        \/ ~to_hex(ds.color).ok
         IN  IF \E i \in DOMAIN list : bad(list[i]) THEN FetchRaised("KeyError")
             ELSE FetchReturned([i \in DOMAIN list |->
                                    Device(list[i].uuid, to_hex(list[i].color).text)])

\* OmnAIScopeStrategy.fetch_devices; rnd[idx] is the value random.randint
\* gives for the device at idx
OmnAIScope_fetch_devices(resp, rnd) ==
    IF HttpFailure(resp) # "none" THEN FetchRaised(HttpFailure(resp))
    ELSE LET ds_list == IF "devices" \in resp.body.has THEN resp.body.list ELSE <<>>
             color_list == IF "colors" \in resp.body.has THEN resp.body.colors ELSE <<>>
             uid(ds) == IF ds.has \cap {"UUID", "uuid"} # {} THEN ds.uuid ELSE "None"
             col(idx) == IF "color" \in color_list[idx].has
                         THEN color_list[idx].color ELSE EmptyDict
             color_hex(idx) ==
                 IF idx <= Len(color_list)
                 THEN <<"#">> \o Fmt02x(GetOr0(col(idx), "r"))
                              \o Fmt02x(GetOr0(col(idx), "g"))
                              \o Fmt02x(GetOr0(col(idx), "b"))
                 ELSE <<"#">> \o Fmt06x(rnd[idx])
         IN  IF \E idx \in DOMAIN ds_list :
                    idx <= Len(color_list) /\ col(idx).tag = "str"
             THEN FetchRaised("AttributeError")
             ELSE FetchReturned([idx \in DOMAIN ds_list |->
                                    Device(uid(ds_list[idx]), color_hex(idx))])

fetch_devices(kind, resp, rnd) ==
    IF kind = DevData THEN DevDataServer_fetch_devices(resp)
    ELSE OmnAIScope_fetch_devices(resp, rnd)

\* ------------------------------------------------------------------------
\* Inputs of the session model
\* ------------------------------------------------------------------------
Hosts == {"h1"}
Rates == {60}
\* the text of the samplerate entry when Start is pressed: a number, or text
\* that rate_var.get() cannot convert ('abc', an empty entry)
NoRate == [valid |-> FALSE, value |-> 0]
RateEntries == {[valid |-> TRUE, value |-> r] : r \in Rates} \cup {NoRate}
\* orderings of devices a discovery call returns
DeviceLists == {<<"a", "b">>}
\* the keys of vars_ (`vars_[dev.uuid] = v` for each device of the dialog): a
\* uuid the list names more than once is one key, at its first position
RECURSIVE DictKeys(_)
DictKeys(devices) ==
    IF devices = <<>> THEN <<>>
    ELSE LET d == DictKeys(SubSeq(devices, 1, Len(devices) - 1))
         IN  IF devices[Len(devices)] \in Range(d) THEN d
             ELSE Append(d, devices[Len(devices)])

\* [uid for uid, v in vars_.items() if v.get()]: the ticked devices in dialog order
Selected(devices, ticked) == SelectSeq(DictKeys(devices), LAMBDA u : u \in ticked)

\* frames a server sends during a session
SessionFrames ==
    { Frame("csv", 10000, <<15000, 25000>>, <<>>),
      Frame("json_self", 10000, <<15000>>, <<"a">>),
      Frame("json_pos", 10000, <<15000, 25000>>, <<>>) }
NoFrame == Frame("none", 0, <<>>, <<>>)

\* ------------------------------------------------------------------------
\* State
\* ------------------------------------------------------------------------
VARIABLES
    strategy,      \* self.strategy
    host_port,     \* self.host_port
    active_uuids,  \* self.active_uuids
    data_buffer,   \* self.data_buffer: uuid -> sequence of <<ts, value>>
    stop_event,    \* self.stop_event
    queue,         \* self.queue: samples and error items, oldest first
    error_boxes,   \* the "WebSocket-Error" message boxes shown so far
    dialogs,       \* the open "Choose devices" dialogs
    closed,        \* the main window was destroyed
    nconnects,     \* connect dialogs submitted so far
    nworkers,      \* worker threads started so far; self.ws_thread is the last
    workers,       \* the worker threads, their streams and what they did
    fetched,       \* history: <<backend, address>> of every successful discovery
    tk,            \* where the GUI thread is, and the locals of its handler
    dec,           \* state of the decoder specification
    reg,           \* state of the registry specification
    rest           \* state of the discovery specification

vars == <<strategy, host_port, active_uuids, data_buffer, stop_event, queue,
          error_boxes, dialogs, closed, nconnects, nworkers, workers, fetched,
          tk, dec, reg, rest>>

gui == <<strategy, host_port, active_uuids, data_buffer, dialogs, closed,
         nconnects, nworkers, fetched, tk>>

W == 1..MaxWorkers

\* A worker thread that was not started yet
NoWorker ==
    [pc |-> "idle", uri |-> [kind |-> "none", host |-> "none"],
     cmd |-> build_subscribe_cmd(<<>>, 0, "none"), sid |-> 0,
     stream |-> "none", inbox |-> 0, nsent |-> 0, raw |-> NoFrame,
     gate |-> "none", recvd |-> 0, handled |-> <<>>, subs |-> 0, sub_at |-> 0,
     decoded |-> <<>>, puts |-> 0, stray |-> FALSE, exit |-> "none",
     res |-> Raised("none", <<>>),
     item |-> [err |-> FALSE, e |-> "none", ts |-> 0, values |-> <<>>]]

\* The GUI thread in the Tk main loop, no handler running.  pc is the place
\* the thread is at: in the main loop ("idle"), inside requests.get ("get"),
\* inside a modal message box ("connect_error", "warning", "ws_error"), or
\* between two statements of _start_measurement ("reset", "clear", "thread")
\* or of _on_close ("closing"), or in the drain loop of _update_plot
\* ("drain").  under is the place the timer callback was started over (the
\* main loop or a message box); uuids, rate and fmt are locals of
\* _start_measurement
NoTk == [pc |-> "idle", under |-> "idle", uuids |-> <<>>, rate |-> NoRate,
         fmt |-> "none"]

\* The decoder specification holds one backend instance, the last subscribe
\* payload it built and its last parse_ws_msg call: the instance as it was at
\* the call, the frame and the outcome
NoCall == [self |-> NoStrategy, raw |-> NoFrame, result |-> Raised("none", <<>>)]
NoDec == [strategy |-> NoStrategy, cmd |-> build_subscribe_cmd(<<>>, 0, "none"),
          call |-> NoCall]

\* The registry specification holds _registry, the classes registered so far
\* (the two of the import first), the objects get_strategy made (heap), the
\* reference each successful get_strategy call returned (handles), what was
\* subscribed through each reference (views), the number of get_strategy
\* calls and the outcome of the last one
NoResolve == [name |-> "none", ok |-> FALSE, err |-> "none"]
InitReg == [registry |-> ImportedRegistry, log |-> ImportLog, heap |-> <<>>,
            handles |-> <<>>, views |-> <<>>, calls |-> 0, last |-> NoResolve]

\* The discovery specification holds the last fetch_devices call: the backend,
\* the URL of the GET, the response of the server and the outcome
NoBody == [json |-> FALSE, has |-> {}, list |-> <<>>, colors |-> <<>>]
NoFetch == [kind |-> "none", url |-> [host |-> "none", path |-> "none"],
            resp |-> [net |-> "none", status |-> 0, body |-> NoBody],
            result |-> FetchRaised("none")]

Init ==
    /\ strategy = NoStrategy
    /\ host_port = ""
    /\ active_uuids = <<>>
    /\ data_buffer = <<>>
    /\ stop_event = FALSE
    /\ queue = <<>>
    /\ error_boxes = <<>>
    /\ dialogs = {}
    /\ closed = FALSE
    /\ nconnects = 0
    /\ nworkers = 0
    /\ workers = [w \in W |-> NoWorker]
    /\ fetched = {}
    /\ tk = NoTk
    /\ dec = NoDec
    /\ reg = InitReg
    /\ rest = NoFetch

\* ------------------------------------------------------------------------
\* GUI thread: connect dialog, device dialog, plot update, close.  The
\* handlers run one at a time; a handler is cut into steps where it waits
\* (requests.get, a modal message box) and between its accesses to what the
\* worker threads read or write (self.strategy and its _uuids,
\* self.active_uuids, self.stop_event, self.queue), because the worker threads
\* run in between
\* ------------------------------------------------------------------------
\* the user can press a button or close the window: the main loop is idle and
\* no message box holds the grab
UserActs == ~closed /\ tk.pc = "idle"

\* the animation timer fires: in the main loop and in the local event loop of
\* a message box that was not opened by the timer callback itself
TimerRuns == ~closed /\ tk.pc \in {"idle", "connect_error", "warning"}

\* _on_connect_submit up to the call of fetch_devices: the strategy and the
\* address are stored, then the thread waits in requests.get
OnConnectSubmit(host, source) ==
    /\ UserActs
    /\ nconnects < MaxConnects
    /\ nconnects' = nconnects + 1
    /\ strategy' = get_strategy(source, nconnects + 1)
    /\ host_port' = host
    /\ tk' = [tk EXCEPT !.pc = "get"]
    /\ UNCHANGED <<active_uuids, data_buffer, stop_event, queue, error_boxes,
                   dialogs, closed, nworkers, workers, fetched, dec, reg, rest>>

\* fetch_devices returns the device list and _device_dialog opens the dialog,
\* or it raises and the error box is shown
FetchAnswer(ok, devices) ==
    /\ tk.pc = "get"
    /\ IF ok
       THEN /\ dialogs' = dialogs \cup
                  {[id |-> nconnects, kind |-> strategy.kind, devices |-> devices]}
            /\ fetched' = fetched \cup {<<strategy.kind, host_port>>}
            /\ tk' = NoTk
       ELSE /\ tk' = [tk EXCEPT !.pc = "connect_error"]
            /\ UNCHANGED <<dialogs, fetched>>
    /\ UNCHANGED <<strategy, host_port, active_uuids, data_buffer, stop_event,
                   queue, error_boxes, closed, nconnects, nworkers, workers,
                   dec, reg, rest>>

\* The user closes the message box and the handler that opened it goes on:
\* _on_connect_submit and _start_measurement return, _update_plot sets the
\* stop signal and returns (to the box it was opened over, if any)
BoxClosed ==
    /\ tk.pc \in {"connect_error", "warning", "ws_error"}
    /\ IF tk.pc = "ws_error"
       THEN /\ stop_event' = TRUE
            /\ tk' = [tk EXCEPT !.pc = tk.under, !.under = "idle"]
       ELSE /\ tk' = NoTk
            /\ UNCHANGED stop_event
    /\ UNCHANGED <<strategy, host_port, active_uuids, data_buffer, queue,
                   error_boxes, dialogs, closed, nconnects, nworkers, workers,
                   fetched, dec, reg, rest>>

\* The thread object created by _start_measurement, with the arguments of
\* _ws_worker evaluated in the GUI thread
NewWorker(self, host, uuids, rate, fmt) ==
    [NoWorker EXCEPT !.pc = "connect",
                     !.uri = build_ws_uri(self, host),
                     !.cmd = build_subscribe_cmd(uuids, rate, fmt),
                     !.sid = self.id]

\* Mutant of StartMeasurement: the selection is not checked for being empty
StartMeasurement_unchecked(dlg, ticked, rate, fmt) ==
    LET uuids == Selected(dlg.devices, ticked) IN
    /\ UserActs
    /\ dlg \in dialogs
    /\ nworkers < MaxWorkers
    /\ dialogs' = dialogs \ {dlg}
    /\ active_uuids' = uuids
    /\ tk' = [tk EXCEPT !.pc = "reset", !.uuids = uuids, !.rate = rate,
                        !.fmt = fmt]
    /\ UNCHANGED <<strategy, host_port, data_buffer, stop_event, queue,
                   error_boxes, closed, nconnects, nworkers, workers, fetched,
                   dec, reg, rest>>

\* _start_measurement, pressed in the device dialog dlg with the devices in
\* `ticked` selected and `rate` in the samplerate entry, up to
\* `self.active_uuids = uuids`.  Without a ticked device it shows the warning
\* box and the dialog stays open
StartMeasurement(dlg, ticked, rate, fmt) ==
    LET uuids == Selected(dlg.devices, ticked) IN
    /\ UserActs
    /\ dlg \in dialogs
    /\ IF uuids = <<>>
       THEN /\ tk' = [tk EXCEPT !.pc = "warning"]
            /\ UNCHANGED <<dialogs, active_uuids>>
       ELSE /\ nworkers < MaxWorkers
            /\ dialogs' = dialogs \ {dlg}
            /\ active_uuids' = uuids
            /\ tk' = [tk EXCEPT !.pc = "reset", !.uuids = uuids, !.rate = rate,
                                !.fmt = fmt]
    /\ UNCHANGED <<strategy, host_port, data_buffer, stop_event, queue,
                   error_boxes, closed, nconnects, nworkers, workers, fetched,
                   dec, reg, rest>>

\* _start_measurement, "reset plot": self.data_buffer holds an empty list for
\* each selected device
ResetPlot ==
    /\ tk.pc = "reset"
    /\ data_buffer' = [u \in Range(tk.uuids) |-> <<>>]
    /\ tk' = [tk EXCEPT !.pc = "clear"]
    /\ UNCHANGED <<strategy, host_port, active_uuids, stop_event, queue,
                   error_boxes, dialogs, closed, nconnects, nworkers, workers,
                   fetched, dec, reg, rest>>

\* _start_measurement: self.stop_event.clear()
ClearStop ==
    /\ tk.pc = "clear"
    /\ stop_event' = FALSE
    /\ tk' = [tk EXCEPT !.pc = "thread"]
    /\ UNCHANGED <<strategy, host_port, active_uuids, data_buffer, queue,
                   error_boxes, dialogs, closed, nconnects, nworkers, workers,
                   fetched, dec, reg, rest>>

\* _start_measurement: the arguments of the thread are evaluated and the
\* thread is started.  rate_var.get() is evaluated before build_subscribe_cmd
\* is called: with an entry that is not a number it raises, the handler ends
\* and neither the ordering is stored nor a thread made.  It reads
\* self.strategy and self.host_port as they are now, not as they were when the
\* dialog was opened, and it does not stop an earlier worker
StartThread ==
    /\ tk.pc = "thread"
    /\ tk' = NoTk
    /\ IF tk.rate.valid
       THEN /\ strategy' = RememberOrder(strategy, tk.uuids)
            /\ nworkers' = nworkers + 1
            /\ workers' = [workers EXCEPT ![nworkers + 1] =
                              NewWorker(strategy, host_port, tk.uuids,
                                        tk.rate.value, tk.fmt)]
       ELSE UNCHANGED <<strategy, nworkers, workers>>
    /\ UNCHANGED <<host_port, active_uuids, data_buffer, stop_event, queue,
                   error_boxes, dialogs, closed, nconnects, fetched, dec, reg,
                   rest>>

\* keep only the last 1000 datapoints
BufferCap == 1000

\* s[-n:]
Last(s, n) == IF Len(s) > n THEN SubSeq(s, Len(s) - n + 1, Len(s)) ELSE s

\* the body of the drain loop for one sample
BufferSample(buf, uuids, item) ==
    [u \in DOMAIN buf |->
        IF \E i \in 1..Min(Len(uuids), Len(item.values)) : uuids[i] = u
        THEN Last(buf[u] \o
                  << <<item.ts,
                       item.values[CHOOSE i \in 1..Min(Len(uuids), Len(item.values)) :
                                       uuids[i] = u]>> >>,
                  BufferCap)
        ELSE buf[u]]

\* One pass of the drain loop started over the place `from`: get_nowait takes
\* the first item; a sample is buffered, at an error item the error box is
\* shown (the stop signal is set when the box is closed, BoxClosed)
TakeItem(from) ==
    LET item == Head(queue) IN
    /\ queue' = Tail(queue)
    /\ IF item.err
       THEN /\ error_boxes' = Append(error_boxes, item.e)
            /\ tk' = [tk EXCEPT !.pc = "ws_error", !.under = from]
            /\ UNCHANGED data_buffer
       ELSE /\ data_buffer' = BufferSample(data_buffer, active_uuids, item)
            /\ tk' = [tk EXCEPT !.pc = "drain", !.under = from]
            /\ UNCHANGED error_boxes
    /\ UNCHANGED <<strategy, host_port, active_uuids, stop_event, dialogs,
                   closed, nconnects, nworkers, workers, fetched, dec, reg, rest>>

\* _update_plot, a timer tick that finds the queue non-empty: the first pass
\* of `while not self.queue.empty()`.  The workers put between the passes
UpdatePlot ==
    /\ TimerRuns
    /\ queue # <<>>
    /\ TakeItem(tk.pc)

\* _update_plot after a sample: `self.queue.empty()` is asked again; the next
\* item is taken, or the loop ends and the callback returns
UpdatePlotNext ==
    /\ tk.pc = "drain"
    /\ IF queue # <<>>
       THEN TakeItem(tk.under)
       ELSE /\ tk' = [tk EXCEPT !.pc = tk.under, !.under = "idle"]
            /\ UNCHANGED <<strategy, host_port, active_uuids, data_buffer,
                           stop_event, queue, error_boxes, dialogs, closed,
                           nconnects, nworkers, workers, fetched, dec, reg,
                           rest>>

\* _on_close: self.stop_event.set()
OnClose ==
    /\ UserActs
    /\ stop_event' = TRUE
    /\ tk' = [tk EXCEPT !.pc = "closing"]
    /\ UNCHANGED <<strategy, host_port, active_uuids, data_buffer, queue,
                   error_boxes, dialogs, closed, nconnects, nworkers, workers,
                   fetched, dec, reg, rest>>

\* _on_close: self.destroy() destroys the main window and with it the open
\* device dialogs
OnCloseDestroy ==
    /\ tk.pc = "closing"
    /\ closed' = TRUE
    /\ dialogs' = {}
    /\ tk' = NoTk
    /\ UNCHANGED <<strategy, host_port, active_uuids, data_buffer, stop_event,
                   queue, error_boxes, nconnects, nworkers, workers, fetched,
                   dec, reg, rest>>

\* ------------------------------------------------------------------------
\* The server end of a stream.  The worker threads are daemon threads: they
\* and their streams end with the main loop, when the window was destroyed
\* ------------------------------------------------------------------------
\* frames a stream holds that the worker has not received yet
InboxCap == 1
\* frames the servers send in one run, over all streams
MaxSent == 3

\* frames sent so far on the streams of the workers 1..n
RECURSIVE SentUpTo(_)
SentUpTo(n) == IF n = 0 THEN 0 ELSE workers[n].nsent + SentUpTo(n - 1)

\* The server of worker w's stream sends one more frame.  inbox counts the
\* frames in flight; what a frame carries is drawn when the worker receives it
ServerSend(w) ==
    /\ ~closed
    /\ workers[w].stream = "open"
    /\ workers[w].nsent < MaxFrames
    /\ SentUpTo(MaxWorkers) < MaxSent
    /\ workers[w].inbox < InboxCap
    /\ workers' = [workers EXCEPT ![w].inbox = @ + 1,
                                  ![w].nsent = @ + 1]
    /\ UNCHANGED <<gui, stop_event, queue, error_boxes, dec, reg, rest>>

\* ------------------------------------------------------------------------
\* Worker thread: _ws_worker / _runner
\*   pc: connect -> gate -> (greeting ->) send -> loop <-> recv -> parse ->
\*   values -> put -> loop; closing (the finally block waits in
\*   `await ws.close()`, the stream is still open), failed (an exception left
\*   _runner, the error item is not put yet) and done.  res is what
\*   parse_ws_msg returned or raised, item the tuple the thread is about to
\*   put.  Beside the
\*   thread's position and its stream a worker record keeps what the
\*   session did so far: gate (the answer read at the gate),
\*   recvd (frames received), handled (positions in the stream of the frames
\*   passed to handle_initial_msg), subs and sub_at (subscribe commands sent,
\*   and recvd at that moment), decoded (positions of the frames passed to
\*   parse_ws_msg), puts (samples put), stray and exit (why the session ended)
\* ------------------------------------------------------------------------
Sample(ts, values) == [err |-> FALSE, e |-> "none", ts |-> ts, values |-> values]
\* ("__error__", e)
ErrorItem(e) == [err |-> TRUE, e |-> e, ts |-> 0, values |-> <<>>]

\* [val_dict.get(uid, float("nan")) for uid in self.active_uuids]
ValueList(val_dict, uuids) ==
    [i \in 1..Len(uuids) |->
        IF uuids[i] \in DOMAIN val_dict THEN val_dict[uuids[i]] ELSE NaN]

\* Mutant of ExitSession: the stream is closed by the finally block of the
\* receive loop only, an exception leaves it open
ExitSession_leak(wk, cause) ==
    [wk EXCEPT !.pc = "done",
               !.stream = IF @ = "open" /\ cause = "cancel" THEN "closed" ELSE @,
               !.inbox = 0,
               !.raw = NoFrame,
               !.exit = cause]

\* Leaving `async with connect(uri) as ws` (and the finally block inside it):
\* an open stream is closed whatever ends the session
ExitSession(wk, cause) ==
    [wk EXCEPT !.pc = "done",
               !.stream = IF @ = "open" THEN "closed" ELSE @,
               !.inbox = 0,
               !.raw = NoFrame,
               !.exit = cause]

\* An exception leaves _runner: the stream is closed on the way out and
\* _ws_worker holds the exception, ("__error__", e) is not put yet
FailSession(wk, cause, e) ==
    [ExitSession(wk, cause) EXCEPT !.pc = "failed", !.item = ErrorItem(e)]

\* connect(uri) succeeds
WConnect(w) ==
    /\ ~closed
    /\ workers[w].pc = "connect"
    /\ workers' = [workers EXCEPT ![w].pc = "gate", ![w].stream = "open"]
    /\ UNCHANGED <<gui, stop_event, queue, error_boxes, dec, reg, rest>>

\* `if self.strategy.server_sends_initial_msg()`
WGate(w) ==
    /\ ~closed
    /\ workers[w].pc = "gate"
    /\ workers' = [workers EXCEPT
           ![w].pc = IF server_sends_initial_msg(strategy) THEN "greeting" ELSE "send",
           ![w].gate = IF server_sends_initial_msg(strategy) THEN "yes" ELSE "no"]
    /\ UNCHANGED <<gui, stop_event, queue, error_boxes, dec, reg, rest>>

\* first_frame = await ws.recv(); self.strategy.handle_initial_msg(first_frame)
WGreeting(w) ==
    /\ ~closed
    /\ workers[w].pc = "greeting"
    /\ workers[w].inbox > 0
    /\ workers' = [workers EXCEPT ![w].pc = "send",
                                  ![w].inbox = @ - 1,
                                  ![w].recvd = @ + 1,
                                  ![w].handled = Append(@, workers[w].recvd + 1)]
    /\ UNCHANGED <<gui, stop_event, queue, error_boxes, dec, reg, rest>>

\* await ws.send(subscribe_cmd)
WSend(w) ==
    /\ ~closed
    /\ workers[w].pc = "send"
    /\ workers' = [workers EXCEPT ![w].pc = "loop",
                                  ![w].subs = @ + 1,
                                  ![w].sub_at = workers[w].recvd]
    /\ UNCHANGED <<gui, stop_event, queue, error_boxes, dec, reg, rest>>

\* `while not self.stop_event.is_set()`: a set flag ends the loop and the
\* finally block starts to close the stream
WLoop(w) ==
    /\ ~closed
    /\ workers[w].pc = "loop"
    /\ workers' = [workers EXCEPT ![w].pc = IF stop_event THEN "closing" ELSE "recv"]
    /\ UNCHANGED <<gui, stop_event, queue, error_boxes, dec, reg, rest>>

\* raw = await asyncio.wait_for(ws.recv(), timeout=0.5) returns a frame
WRecv(w, f) ==
    /\ ~closed
    /\ workers[w].pc = "recv"
    /\ workers[w].inbox > 0
    /\ workers' = [workers EXCEPT ![w].pc = "parse",
                                  ![w].raw = f,
                                  ![w].inbox = @ - 1,
                                  ![w].recvd = @ + 1]
    /\ UNCHANGED <<gui, stop_event, queue, error_boxes, dec, reg, rest>>

\* asyncio.TimeoutError: continue
WTimeout(w) ==
    /\ ~closed
    /\ workers[w].pc = "recv"
    /\ workers[w].inbox = 0
    /\ workers' = [workers EXCEPT ![w].pc = "loop"]
    /\ UNCHANGED <<gui, stop_event, queue, error_boxes, dec, reg, rest>>

\* History: the decoder instance a frame of worker wk is parsed with is not the
\* instance that built wk's subscribe payload, or holds another ordering
Stray(wk, self) == self.id # wk.sid \/ ~self.bound \/ self.uuids # wk.cmd.uuids

\* ts, val_dict = self.strategy.parse_ws_msg(raw).  An exception of
\* parse_ws_msg leaves the loop and the finally block starts to close the
\* stream
WParse(w) ==
    LET r == parse_ws_msg(strategy, workers[w].raw)
        seen == [workers[w] EXCEPT !.decoded = Append(@, workers[w].recvd),
                                   !.stray = @ \/ Stray(workers[w], strategy),
                                   !.raw = NoFrame]
    IN  /\ ~closed
        /\ workers[w].pc = "parse"
        /\ workers' = [workers EXCEPT ![w] =
               [seen EXCEPT !.pc = IF r.ok THEN "values" ELSE "closing",
                            !.res = r]]
        /\ UNCHANGED <<gui, stop_event, queue, error_boxes, dec, reg, rest>>

\* finally: `await ws.close()` returns (the peer answered the close frame, or
\* the close timed out): the stream is closed; after the stop signal the
\* thread ends, after an exception of parse_ws_msg the exception leaves
\* _runner
WClosed(w) ==
    /\ ~closed
    /\ workers[w].pc = "closing"
    /\ workers' = [workers EXCEPT ![w] =
           IF workers[w].res.err = "none"
           THEN ExitSession(@, "cancel")
           ELSE [FailSession(@, "decode", workers[w].res.err)
                    EXCEPT !.res = NoWorker.res]]
    /\ UNCHANGED <<gui, stop_event, queue, error_boxes, dec, reg, rest>>

\* values = [val_dict.get(uid, float("nan")) for uid in self.active_uuids]
WValues(w) ==
    /\ ~closed
    /\ workers[w].pc = "values"
    /\ workers' = [workers EXCEPT
           ![w].pc = "put",
           ![w].item = Sample(workers[w].res.ts,
                              ValueList(workers[w].res.values, active_uuids))]
    /\ UNCHANGED <<gui, stop_event, queue, error_boxes, dec, reg, rest>>

\* Mutant of WPut: the worker goes on to the next frame without putting the
\* sample
WPut_late(w) ==
    /\ ~closed
    /\ workers[w].pc = "put"
    /\ workers' = [workers EXCEPT ![w].pc = "loop",
                                  ![w].res = NoWorker.res,
                                  ![w].item = NoWorker.item]
    /\ UNCHANGED <<gui, stop_event, queue, error_boxes, dec, reg, rest>>

\* self.queue.put((ts, values))
WPut(w) ==
    /\ ~closed
    /\ workers[w].pc = "put"
    /\ queue' = Append(queue, workers[w].item)
    /\ workers' = [workers EXCEPT ![w].pc = "loop",
                                  ![w].res = NoWorker.res,
                                  ![w].item = NoWorker.item,
                                  ![w].puts = @ + 1]
    /\ UNCHANGED <<gui, stop_event, error_boxes, dec, reg, rest>>

\* Mutant of WTransportError: the worker swallows the exception
WTransportError_swallow(w) ==
    /\ ~closed
    /\ workers[w].pc \in {"connect", "greeting", "send", "recv"}
    /\ workers' = [workers EXCEPT ![w] = ExitSession(@, "transport")]
    /\ UNCHANGED <<gui, stop_event, queue, error_boxes, dec, reg, rest>>

\* A transport failure: connect(uri) fails, or the connection drops in
\* ws.recv() or ws.send(); the exception ends the session
WTransportError(w) ==
    /\ ~closed
    /\ workers[w].pc \in {"connect", "greeting", "send", "recv"}
    /\ workers' = [workers EXCEPT ![w] =
                      FailSession(@, "transport", "TransportError")]
    /\ UNCHANGED <<gui, stop_event, queue, error_boxes, dec, reg, rest>>

\* except Exception as e: self.queue.put(("__error__", e)), and the thread ends
WPutError(w) ==
    /\ ~closed
    /\ workers[w].pc = "failed"
    /\ queue' = Append(queue, workers[w].item)
    /\ workers' = [workers EXCEPT ![w].pc = "done", ![w].item = NoWorker.item]
    /\ UNCHANGED <<gui, stop_event, error_boxes, dec, reg, rest>>

WorkerStep(w) ==
    \/ WConnect(w)
    \/ WGate(w)
    \/ WGreeting(w)
    \/ WSend(w)
    \/ WLoop(w)
    \/ \E f \in SessionFrames : WRecv(w, f)
    \/ WTimeout(w)
    \/ WParse(w)
    \/ WValues(w)
    \/ WPut(w)
    \/ WClosed(w)
    \/ WTransportError(w)
    \/ WPutError(w)

\* The steps a worker takes without a failure of its connection
WOwnStep(w) ==
    \/ WConnect(w)
    \/ WGate(w)
    \/ WGreeting(w)
    \/ WSend(w)
    \/ WLoop(w)
    \/ \E f \in SessionFrames : WRecv(w, f)
    \/ WTimeout(w)
    \/ WParse(w)
    \/ WValues(w)
    \/ WPut(w)
    \/ WClosed(w)
    \/ WPutError(w)

\* The GUI handlers run one at a time in the Tk main loop; the worker threads
\* and the servers run beside it, one step at a time.  The format box of a
\* device dialog is left at its default, the first format of the dialog's
\* backend
Next ==
    \/ \E host \in Hosts, source \in Backends : OnConnectSubmit(host, source)
    \/ \E ok \in BOOLEAN, devices \in DeviceLists : FetchAnswer(ok, devices)
    \/ BoxClosed
    \/ \E dlg \in dialogs : \E ticked \in SUBSET Range(dlg.devices),
                               rate \in RateEntries,
                               fmt \in {formats(dlg.kind)[1]} :
           StartMeasurement(dlg, ticked, rate, fmt)
    \/ ResetPlot
    \/ ClearStop
    \/ StartThread
    \/ UpdatePlot
    \/ UpdatePlotNext
    \/ OnClose
    \/ OnCloseDestroy
    \/ \E w \in W : ServerSend(w)
    \/ \E w \in W : WorkerStep(w)

Spec == Init /\ [][Next]_vars

\* ------------------------------------------------------------------------
\* Decoder specification: one backend instance driven directly through
\* get_strategy, build_subscribe_cmd and parse_ws_msg, on every frame of the
\* catalogue
\* ------------------------------------------------------------------------
MaxVals == 2          \* values carried by one frame

Uuids == {"a", "b"}
DecRates == {60, 100}
Values == {15000, 25000}

SeqsUpTo(S, n) == UNION {[1..k -> S] : k \in 0..n}
\* orderings of distinct uuids
Orders == {o \in SeqsUpTo(Uuids, Cardinality(Uuids)) :
              o # <<>> /\ \A i, j \in DOMAIN o : o[i] = o[j] => i = j}
ValSeqs == SeqsUpTo(Values, MaxVals)

DecodeFrames ==
    {Frame("json_self", ts, vs, ds) : ts \in Stamps, vs \in ValSeqs, ds \in Orders}
    \cup {Frame(sh, ts, vs, <<>>) : sh \in {"json_pos"}, ts \in Stamps, vs \in ValSeqs}
    \cup {Frame(sh, 0, vs, <<>>) : sh \in {"json_nots", "json_arr"}, vs \in ValSeqs}
    \cup {Frame("csv", ts, vs, <<>>) : ts \in Stamps, vs \in ValSeqs \ {<<>>}}
    \cup {Frame("num", ts, <<>>, <<>>) : ts \in Stamps}
    \cup {Frame(sh, 0, <<>>, <<>>) : sh \in {"json_bad", "csv_bad", "text", "bin", "bytes"}}

session == <<strategy, host_port, active_uuids, data_buffer, stop_event, queue,
             error_boxes, dialogs, closed, nconnects, nworkers, workers, fetched,
             tk>>

\* strategy = get_strategy(name), once
DecResolve(name) ==
    /\ dec.strategy = NoStrategy
    /\ dec' = [dec EXCEPT !.strategy = get_strategy(name, 1)]
    /\ UNCHANGED <<session, reg, rest>>

\* strategy.build_subscribe_cmd(uuids, rate, fmt)
DecSubscribe(uuids, rate, fmt) ==
    /\ dec.strategy # NoStrategy
    /\ dec' = [dec EXCEPT !.strategy = RememberOrder(@, uuids),
                          !.cmd = build_subscribe_cmd(uuids, rate, fmt)]
    /\ UNCHANGED <<session, reg, rest>>

\* strategy.parse_ws_msg(raw)
DecParse(raw) ==
    /\ dec.strategy # NoStrategy
    /\ dec' = [dec EXCEPT !.call = [self |-> dec.strategy, raw |-> raw,
                                    result |-> parse_ws_msg(dec.strategy, raw)]]
    /\ UNCHANGED <<session, reg, rest>>

NextDecode ==
    \/ \E name \in Backends : DecResolve(name)
    \/ \E uuids \in Orders, rate \in DecRates :
           \E fmt \in Range(formats(dec.strategy.kind)) : DecSubscribe(uuids, rate, fmt)
    \/ \E raw \in DecodeFrames : DecParse(raw)

SpecDecode == Init /\ [][NextDecode]_vars

\* ------------------------------------------------------------------------
\* Registry specification: register, get_strategy and build_subscribe_cmd
\* called in any order on the registry of the imported module
\* ------------------------------------------------------------------------
MaxRegs == 2          \* register calls after the import
MaxResolves == 3      \* get_strategy calls

\* classes a plug-in module may register: one under a name that is taken,
\* one under a new name
PluginClasses == {Class("ReplayStrategy", DevData), Class("PluginStrategy", "Plugin")}
RegClasses == {DevDataServerStrategy, OmnAIScopeStrategy} \cup PluginClasses
RegNames == {c.name : c \in RegClasses} \cup {"Nonexistent"}
RegOrders == {<<"a">>, <<"b", "a">>}

\* register(cls)
RegRegister(cls) ==
    /\ Len(reg.log) < Len(ImportLog) + MaxRegs
    /\ reg' = [reg EXCEPT !.registry = register(@, cls), !.log = Append(@, cls)]
    /\ UNCHANGED <<session, dec, rest>>

\* get_strategy(name): KeyError for a name that is no key of _registry,
\* else a reference to a new object of the class stored under the name
RegGetStrategy(name) ==
    /\ reg.calls < MaxResolves
    /\ IF HasKey(reg.registry, name)
       THEN LET new == instantiate(reg.heap, registry_item(reg.registry, name))
            IN  reg' = [reg EXCEPT
                          !.heap = new.heap,
                          !.handles = Append(@, new.id),
                          !.views = Append(@, [uuids |-> <<>>, bound |-> FALSE]),
                          !.calls = @ + 1,
                          !.last = [name |-> name, ok |-> TRUE, err |-> "none"]]
       ELSE reg' = [reg EXCEPT
                      !.calls = @ + 1,
                      !.last = [name |-> name, ok |-> FALSE, err |-> "KeyError"]]
    /\ UNCHANGED <<session, dec, rest>>

\* build_subscribe_cmd(uuids, rate, fmt) through the k-th reference
RegSubscribe(k, uuids) ==
    /\ k \in DOMAIN reg.handles
    /\ reg' = [reg EXCEPT !.heap[reg.handles[k]] = RememberOrder(@, uuids),
                          !.views[k] = [uuids |-> uuids, bound |-> TRUE]]
    /\ UNCHANGED <<session, dec, rest>>

NextRegistry ==
    \/ \E cls \in RegClasses : RegRegister(cls)
    \/ \E name \in RegNames : RegGetStrategy(name)
    \/ \E k \in 1..MaxResolves, uuids \in RegOrders : RegSubscribe(k, uuids)

SpecRegistry == Init /\ [][NextRegistry]_vars

\* ------------------------------------------------------------------------
\* Discovery specification: fetch_devices of either backend on every response
\* of the catalogue
\* ------------------------------------------------------------------------
MaxDevices == 2       \* entries of a device list and of a colour list

\* values of random.randint(0, 0xFFFFFF)
Rands == {0, 255, 16777215}

Rgb(r, g, b) == RgbDict({"r", "g", "b"}, r, g, b)
UpperHex == ColourStr(<<"#", "F", "F", "0", "0", "A", "A">>)
LowerHex == ColourStr(<<"#", "0", "0", "f", "f", "1", "0">>)

\* entries of the device list: {"UUID": .., "color": ..}
Entry(has, uuid, color) == [has |-> has, uuid |-> uuid, color |-> color]
Entries ==
    { Entry({"UUID", "color"}, "a", Rgb(0, 255, 16)),
      Entry({"UUID", "color"}, "b", Rgb(255, 9, 160)),
      Entry({"UUID", "color"}, "a", LowerHex),
      Entry({"UUID", "color"}, "b", UpperHex),
      Entry({"UUID", "color"}, "a", RgbDict({"g", "b"}, 0, 255, 16)),
      Entry({"uuid"}, "b", EmptyDict),
      Entry({"color"}, "None", Rgb(0, 255, 16)) }

\* entries of the colour list: {"color": {"r": .., "g": .., "b": ..}}
ColourEntry(has, color) == [has |-> has, color |-> color]
ColourEntries ==
    { ColourEntry({"color"}, Rgb(0, 255, 16)),
      ColourEntry({"color"}, RgbDict({"g", "b"}, 0, 255, 16)),
      ColourEntry({"color"}, LowerHex),
      ColourEntry({}, EmptyDict) }

BodyKeys == {"datastreams", "devices", "colors"}
Bodies ==
    {b \in [json : {TRUE}, has : SUBSET BodyKeys,
            list : SeqsUpTo(Entries, MaxDevices),
            colors : SeqsUpTo(ColourEntries, MaxDevices)] :
        /\ b.has \cap {"datastreams", "devices"} = {} => b.list = <<>>
        /\ "colors" \notin b.has => b.colors = <<>>}

Response(net, status, body) == [net |-> net, status |-> status, body |-> body]
Responses ==
    { Response("timeout", 0, NoBody), Response("ok", 500, NoBody),
      Response("ok", 200, NoBody) }
    \cup {Response("ok", 200, b) : b \in Bodies}

\* strategy.fetch_devices(host_port) on a new strategy object; the call keeps
\* no state, so one call per behaviour covers every call
FetchDevices(kind, host, resp, rnd) ==
    /\ rest = NoFetch
    /\ rest' = [kind |-> kind, url |-> fetch_url(kind, host), resp |-> resp,
                result |-> fetch_devices(kind, resp, rnd)]
    /\ UNCHANGED <<session, dec, reg>>

NextFetch ==
    /\ rest = NoFetch
    /\ \E kind \in Backends, host \in Hosts, resp \in Responses,
          rnd \in [1..MaxDevices -> Rands] : FetchDevices(kind, host, resp, rnd)

SpecFetch == Init /\ [][NextFetch]_vars

\* ========================================================================
\* Properties of the session driver (specification Spec)
\* ========================================================================
Running(w) == workers[w].pc \notin {"idle", "done"}

\* C1: in every session, when server_sends_initial_msg() of the session's
\* backend (the backend whose endpoint the session is connected to) is true,
\* exactly one frame (the first of the stream) is received and passed to
\* handle_initial_msg before the subscribe command is sent, and that frame is
\* never passed to parse_ws_msg; when it is false, the subscribe command is
\* sent with zero prior receives.
C1_GreetingBeforeSubscribe ==
    \A w \in W :
        LET k == workers[w]
            greets == server_sends_initial_msg(k.uri)
        IN  /\ k.subs > 0 =>
                  /\ greets => k.sub_at = 1 /\ k.handled = <<1>>
                  /\ ~greets => k.sub_at = 0 /\ k.handled = <<>>
            /\ k.pc = "send" => k.recvd = (IF greets THEN 1 ELSE 0)
            /\ Range(k.handled) \cap Range(k.decoded) = {}

\* C2: a frame that parse_ws_msg rejects does not end the session (no worker
\* ever leaves its session because of a decode failure).
C2_DecodeFailureKeepsSession ==
    \A w \in W : workers[w].exit # "decode"

\* C3: once the stop signal is set, a running worker can always take a step
\* of its own towards the stop check without a further inbound frame: no
\* receive waits without a timeout.
C3_StopNeverBlocks ==
    \A w \in W : (~closed /\ stop_event /\ Running(w)) => ENABLED WOwnStep(w)

\* C4: a terminated session never leaves its stream open.
C4_StreamClosedOnExit ==
    \A w \in W : workers[w].pc \in {"failed", "done"} => workers[w].stream # "open"

\* C4 witness: one session ended by a decode exception and one by
\* cancellation, both with the stream they had opened closed
C4_Witness ==
    \E v, w \in W : /\ workers[v].exit = "decode" /\ workers[v].stream = "closed"
                    /\ workers[w].exit = "cancel" /\ workers[w].stream = "closed"

\* number of entries of the sequence q that satisfy P
Count(q, P(_)) == Cardinality({i \in DOMAIN q : P(q[i])})
IsTransportItem(item) == item.err /\ item.e = "TransportError"
IsTransportBox(e) == e = "TransportError"

\* C5: a transport failure ends the session (the worker is left with putting
\* the error item, or has ended), the error item of every worker that ended
\* so is in the queue until the consumer takes it (it is waiting in the queue
\* or was shown), and when the consumer has processed an error item (its
\* message box is closed and _update_plot returns) the stop signal is set.
C5_TransportErrorSurfaced ==
    /\ [](/\ \A w \in W : workers[w].exit = "transport" =>
                               \/ workers[w].pc = "done"
                               \/ /\ workers[w].pc = "failed"
                                  /\ IsTransportItem(workers[w].item)
          /\ Cardinality({w \in W : workers[w].exit = "transport"
                                     /\ workers[w].pc = "done"})
                = Count(queue, IsTransportItem) + Count(error_boxes, IsTransportBox))
    /\ [][(tk.pc = "ws_error" /\ tk'.pc # "ws_error") => stop_event']_vars

\* C5 witness: the consumer has shown a transport error, its box was closed
\* and the stop signal is set
C5_Witness ==
    /\ Count(error_boxes, IsTransportBox) > 0
    /\ tk.pc = "idle"
    /\ ~closed
    /\ stop_event
    /\ \E w \in W : workers[w].exit = "transport" /\ workers[w].pc = "done"

\* C6: every session was started for a backend and address whose discovery
\* call succeeded.
C6_DiscoveryGatesSession ==
    \A w \in W : workers[w].pc # "idle" =>
        <<workers[w].uri.kind, workers[w].uri.host>> \in fetched

\* C7: every frame of a session is parsed by the instance that built the
\* session's subscribe payload, holding the ordering of that payload.
C7_SessionDecoderFixed ==
    \A w \in W : ~workers[w].stray

\* C8: the subscribe command is sent exactly once and before the loop; the
\* frames passed to parse_ws_msg are the frames received after it, each one
\* once and in the order received; and whenever the worker is about to
\* receive, every frame received so far was parsed and its sample put.
C8_SessionOrder ==
    \A w \in W :
        LET k == workers[w] IN
        /\ k.subs <= 1
        /\ k.pc \in {"loop", "recv", "parse", "values", "put"} => k.subs = 1
        /\ k.decoded # <<>> => k.subs = 1
        /\ \A i \in DOMAIN k.decoded : k.decoded[i] = k.sub_at + i
        /\ k.pc \in {"loop", "recv"} =>
              /\ Len(k.decoded) = k.recvd - k.sub_at
              /\ k.puts = Len(k.decoded)
        /\ k.pc = "parse" =>
              /\ Len(k.decoded) + 1 = k.recvd - k.sub_at
              /\ k.puts = Len(k.decoded)
        /\ k.pc \in {"values", "put"} =>
              /\ Len(k.decoded) = k.recvd - k.sub_at
              /\ k.puts + 1 = Len(k.decoded)

\* C8 witness: a session that decoded two frames and is about to receive again
C8_Witness ==
    \E w \in W : /\ workers[w].pc = "recv"
                 /\ workers[w].subs = 1
                 /\ workers[w].decoded = <<1, 2>>
                 /\ workers[w].puts = 2

\* samples (not error items) waiting in the queue
SamplesWaiting == Cardinality({i \in DOMAIN queue : ~queue[i].err})

\* C23: the hand-off has a fixed capacity.  A hand-off of fixed capacity
\* cannot hold every sample of a stream whatever the number of frames the
\* server sends; here, fewer samples wait than a server sends on one stream.
C23_HandoffBounded ==
    SamplesWaiting < MaxFrames

\* C24: at most one worker thread is in a session at any time.
C24_SingleActiveWorker ==
    \A v, w \in W : (Running(v) /\ Running(w)) => v = w

\* the steps of _start_measurement pressed with no device ticked: the
\* "choose at least one device" box is shown, and the handler returns when
\* the box is closed
Warns == \/ tk.pc = "idle" /\ tk'.pc = "warning"
         \/ tk.pc = "warning" /\ tk'.pc = "idle"

\* C27: no worker is ever started with an empty subscription and no decoder
\* instance stores an empty ordering; _start_measurement pressed with no
\* device selected (both of its steps) starts no worker, closes no dialog and
\* leaves the stop signal, the active uuids, the plot buffers, the strategy
\* with its stored ordering, the address and the queue unchanged.
C27_EmptySelectionStartsNothing ==
    /\ [](/\ \A w \in W : workers[w].pc # "idle" => workers[w].cmd.uuids # <<>>
          /\ strategy.bound => strategy.uuids # <<>>)
    /\ [][Warns => UNCHANGED <<stop_event, active_uuids, data_buffer, strategy,
                               host_port, nworkers, workers, queue, dialogs>>]_vars

\* C27 witness: the warning box is open while a session of an earlier
\* measurement is running and has put a sample
C27_Witness ==
    /\ tk.pc = "warning"
    /\ \E w \in W : Running(w) /\ workers[w].puts > 0
    /\ ~stop_event

\* a step in which worker w puts a sample
PutsSample(w) == workers'[w].puts = workers[w].puts + 1

\* C25: the sample a worker puts has exactly one value per uuid of
\* self.active_uuids as it is at the put, in that order: the value the
\* decoded mapping has for the uuid, or NaN when it has none; entries of the
\* mapping for other uuids are not in the sample.
C25_SampleAlignedToActiveUuids ==
    [][\A w \in W : PutsSample(w) =>
          LET r == workers[w].res
              item == queue'[Len(queue')]
          IN  /\ Len(queue') = Len(queue) + 1
              /\ ~item.err
              /\ Len(item.values) = Len(active_uuids)
              /\ \A i \in 1..Len(active_uuids) :
                    item.values[i] = IF active_uuids[i] \in DOMAIN r.values
                                     THEN r.values[active_uuids[i]]
                                     ELSE NaN]_vars

\* a drain step: a pass of the loop of _update_plot took an item off the queue
Drains == Len(queue') < Len(queue)

\* the samples among the items a drain step takes
Samples(items) == SelectSeq(items, LAMBDA item : ~item.err)

\* the buffer entries the samples make for the device at position p of the
\* subscription
EntriesAt(samples, p) ==
    [j \in 1..Len(samples) |-> <<samples[j].ts, samples[j].values[p]>>]

\* C26: a buffer never holds more than 1000 entries, and after a drain step
\* the buffer of each subscribed uuid holds the most recently drained samples
\* for that uuid: every sample drained in this step has a value for the uuid,
\* and the buffer is the tail of (what it held before followed by the samples
\* drained in this step, in queue order): all of it when that is at most 1000
\* entries long, its last 1000 entries otherwise.
C26_BufferKeepsLatest ==
    /\ [](\A u \in DOMAIN data_buffer : Len(data_buffer[u]) <= BufferCap)
    /\ [][Drains =>
            \A p \in DOMAIN active_uuids :
               LET u == active_uuids[p]
                   taken == Samples(SubSeq(queue, 1, Len(queue) - Len(queue')))
               IN  /\ \A j \in DOMAIN taken : p \in DOMAIN taken[j].values
                   /\ LET arrived == data_buffer[u] \o EntriesAt(taken, p)
                          kept == Len(data_buffer'[u])
                      IN  /\ kept = Min(Len(arrived), BufferCap)
                          /\ \A k \in 1..kept :
                                data_buffer'[u][k] =
                                   arrived[Len(arrived) - kept + k]]_vars

\* ========================================================================
\* Properties of the frame decoder (specification SpecDecode)
\* ========================================================================
Called == dec.call.raw # NoFrame

\* the branch the dispatch policy assigns to a frame
PolicyBranch(raw) ==
    IF FirstChar(raw) \in {"{", "["} THEN <<"json">>
    ELSE IF HasComma(raw) THEN <<"csv">>
    ELSE <<"reject">>

\* C9: parse_ws_msg of every backend handles a frame in exactly the branch
\* the policy JSON -> delimited text -> reject assigns to it.
C9_DispatchOrder ==
    Called => dec.call.result.path = PolicyBranch(dec.call.raw)

\* C10: a self-describing JSON frame is decoded by a subscribed decoder, and
\* the i-th device id of its own list gets the i-th value, whatever ordering
\* was subscribed.
C10_PayloadOrderWins ==
    (Called /\ dec.call.self.bound /\ dec.call.raw.shape = "json_self") =>
        /\ dec.call.result.ok
        /\ \A i \in 1..Min(Len(dec.call.raw.devs), Len(dec.call.raw.vals)) :
              /\ dec.call.raw.devs[i] \in DOMAIN dec.call.result.values
              /\ dec.call.result.values[dec.call.raw.devs[i]] = dec.call.raw.vals[i]

\* the i-th uuid of `order` has the i-th value of `vals`, up to the shorter
\* of the two, and nothing else has an entry
Positional(values, order, vals) ==
    /\ DOMAIN values = {order[i] : i \in 1..Min(Len(order), Len(vals))}
    /\ \A i \in 1..Min(Len(order), Len(vals)) : values[order[i]] = vals[i]

\* round(seconds * 1000): the nearest integer, a tie going to the even one
RoundMs(ts) ==
    LET x == ts * MsPerSec
        q == x \div Frac
        r == x % Frac
        up == 2 * r > Frac \/ (2 * r = Frac /\ q % 2 = 1)
    IN  (IF up THEN q + 1 ELSE q) * Frac

\* C11: a positional JSON frame is decoded successfully by the decoder of
\* every backend once an ordering was subscribed, and the i-th value goes to
\* the i-th uuid of that ordering.
C11_PositionalJsonDecoded ==
    (Called /\ dec.call.self.bound /\ dec.call.raw.shape = "json_pos") =>
        /\ dec.call.result.ok
        /\ Positional(dec.call.result.values, dec.call.self.uuids, dec.call.raw.vals)

\* C12: after build_subscribe_cmd on an instance, a delimited-text frame
\* "<seconds>,v1,...,vk" decodes on that instance to the timestamp in
\* milliseconds and the i-th uuid of the ordering mapped to vi.
C12_SubscribeThenCsvRoundTrip ==
    (Called /\ dec.call.self.bound /\ dec.call.self.uuids = dec.cmd.uuids
            /\ dec.call.raw.shape = "csv") =>
        /\ dec.call.result.ok
        /\ dec.call.result.ts = RoundMs(dec.call.raw.ts)
        /\ Positional(dec.call.result.values, dec.cmd.uuids, dec.call.raw.vals)

\* C13: every timestamp parse_ws_msg returns is round(seconds * 1000) of the
\* timestamp the frame carries, whatever the backend and the shape.
C13_TimestampIsRoundedMs ==
    (Called /\ dec.call.result.ok) =>
        dec.call.result.ts = RoundMs(dec.call.raw.ts)

\* frames that are neither JSON nor delimited text
Unrecognized(raw) == raw.shape \in {"text", "bin", "bytes"}

\* C14: a frame that is neither JSON nor delimited text fails with the
\* rejection error of the decoder, and neither the JSON nor the delimited-text
\* branch ran on it.
C14_UnrecognizedRejectedUndecoded ==
    (Called /\ Unrecognized(dec.call.raw)) =>
        /\ ~dec.call.result.ok
        /\ dec.call.result.err = "ValueError:unsupported"
        /\ Range(dec.call.result.path) \cap {"json", "csv"} = {}

\* frames of a recognized shape with an invalid field
Malformed(raw) == raw.shape \in {"json_nots", "csv_bad"}

\* the error outcomes a decoder instance gives to unrecognized frames
UnsupportedOutcomes(self) ==
    {parse_ws_msg(self, f).err : f \in {g \in DecodeFrames : Unrecognized(g)}}

\* C15: a frame of a recognized shape with an invalid field fails, and with
\* an error outcome that no unrecognized frame gets from the same decoder.
C15_MalformedDistinctFromUnsupported ==
    (Called /\ Malformed(dec.call.raw)) =>
        /\ ~dec.call.result.ok
        /\ dec.call.result.err \notin UnsupportedOutcomes(dec.call.self)

\* C16: a positional frame (positional JSON, delimited text) whose number of
\* values differs from the length of the subscribed ordering never fails: the
\* first k uuids get the k values, the rest of either sequence is dropped.
C16_ZipStopsAtShorter ==
    (Called /\ dec.call.self.bound
            /\ dec.call.raw.shape \in {"json_pos", "csv"}
            /\ Len(dec.call.raw.vals) # Len(dec.call.self.uuids)) =>
        /\ dec.call.result.ok
        /\ Positional(dec.call.result.values, dec.call.self.uuids, dec.call.raw.vals)

\* the words of a text between its spaces
RECURSIVE Split(_)
Split(t) ==
    IF " " \notin Range(t) THEN <<t>>
    ELSE LET i == CHOOSE k \in DOMAIN t : t[k] = " " /\ \A j \in 1..(k - 1) : t[j] # " "
         IN  <<SubSeq(t, 1, i - 1)>> \o Split(SubSeq(t, i + 1, Len(t)))

Subscribed == dec.cmd.fmt # "none"

\* C22: for a text format the payload of build_subscribe_cmd is one line
\* whose words, separated by single spaces, are the uuids in the order given,
\* then the rate, then the format name; the decoder instance stores that same
\* order for positional decoding.
C22_PayloadIsUuidsRateFormat ==
    (Subscribed /\ dec.cmd.fmt \in {"json", "csv"}) =>
        LET words == Split(dec.cmd.text)
            k == Len(dec.cmd.uuids)
        IN  /\ "\n" \notin Range(dec.cmd.text)
            /\ Len(words) = k + 2
            /\ \A i \in 1..k : words[i] = <<dec.cmd.uuids[i]>>
            /\ words[k + 1] = Str(dec.cmd.rate)
            /\ words[k + 2] = Chars(dec.cmd.fmt)
            /\ dec.strategy.bound
            /\ dec.strategy.uuids = dec.cmd.uuids

\* C22 witness: "b a 60 csv" built, and a delimited-text frame decoded with
\* the ordering b, a
C22_Witness ==
    /\ dec.cmd.text = <<"b", " ", "a", " ", "6", "0", " ", "c", "s", "v">>
    /\ dec.strategy.uuids = <<"b", "a">>
    /\ dec.call.self.uuids = <<"b", "a">>
    /\ dec.call.raw.shape = "csv"

\* ========================================================================
\* Properties of the registry (specification SpecRegistry)
\* ========================================================================
\* the object the k-th get_strategy reference points to
Instance(r, k) == r.heap[r.handles[k]]

\* a step that is a get_strategy call
Resolved == reg'.calls > reg.calls

\* C18: get_strategy(name) on a registered name returns a reference to a new
\* object every time (no two calls return the same object, an ordering
\* subscribed through one reference shows through no other, the new object
\* has no ordering); on a name that is not registered it fails with the
\* lookup error and makes no object; either way the registry is unchanged.
C18_ResolveNewOrUnknown ==
    /\ [](\A j, k \in DOMAIN reg.handles :
             /\ j # k => reg.handles[j] # reg.handles[k]
             /\ Instance(reg, k).uuids = reg.views[k].uuids
             /\ Instance(reg, k).bound = reg.views[k].bound)
    /\ [][Resolved =>
            /\ reg'.registry = reg.registry
            /\ reg'.last.ok = HasKey(reg.registry, reg'.last.name)
            /\ IF reg'.last.ok
               THEN /\ Len(reg'.handles) = Len(reg.handles) + 1
                    /\ Instance(reg', Len(reg'.handles)).kind = reg'.last.name
                    /\ ~Instance(reg', Len(reg'.handles)).bound
               ELSE /\ reg'.last.err = "KeyError"
                    /\ reg'.handles = reg.handles
                    /\ reg'.heap = reg.heap]_vars

\* C18 witness: one name resolved twice, an ordering subscribed through the
\* first reference only, then a name resolved that is not registered
C18_Witness ==
    /\ Len(reg.handles) = 2
    /\ Instance(reg, 1).kind = Instance(reg, 2).kind
    /\ Instance(reg, 1).bound
    /\ ~Instance(reg, 2).bound
    /\ reg.last = [name |-> "Nonexistent", ok |-> FALSE, err |-> "KeyError"]

\* the names of a sequence of classes, each at its first occurrence only
RECURSIVE FirstOccurrences(_)
FirstOccurrences(s) ==
    IF s = <<>> THEN <<>>
    ELSE LET d == FirstOccurrences(SubSeq(s, 1, Len(s) - 1))
         IN  IF s[Len(s)].name \in Range(d) THEN d ELSE Append(d, s[Len(s)].name)

\* the class of the last registration made under a name
LastRegistered(log, name) ==
    log[CHOOSE i \in DOMAIN log :
            /\ log[i].name = name
            /\ \A j \in DOMAIN log : log[j].name = name => j <= i]

\* C19: after any sequence of register calls, available_sources() lists the
\* registered names in the order of their first registration, each once, the
\* registry holds for each name the class of its last registration, and
\* get_strategy(name) makes an object of that class.
C19_RegistrationOrderLastWins ==
    /\ [](/\ registry_keys(reg.registry) = FirstOccurrences(reg.log)
          /\ \A i, j \in DOMAIN reg.registry :
                reg.registry[i].name = reg.registry[j].name => i = j
          /\ \A i \in DOMAIN reg.log :
                /\ HasKey(reg.registry, reg.log[i].name)
                /\ registry_item(reg.registry, reg.log[i].name)
                      = LastRegistered(reg.log, reg.log[i].name))
    /\ [][(Resolved /\ reg'.last.ok) =>
            Instance(reg', Len(reg'.handles)).cls
                = LastRegistered(reg.log, reg'.last.name).cls]_vars

\* C19 witness: a class registered under a taken name and one under a new
\* name, then the taken name resolved to the class registered last
C19_Witness ==
    /\ registry_keys(reg.registry) = <<DevData, OmnAI, "Plugin">>
    /\ Len(reg.log) = 4
    /\ reg.last = [name |-> DevData, ok |-> TRUE, err |-> "none"]
    /\ Len(reg.handles) > 0
    /\ Instance(reg, Len(reg.handles)).cls = "ReplayStrategy"

\* ========================================================================
\* Properties of device discovery (specification SpecFetch)
\* ========================================================================
Fetched == rest.kind # "none"

\* the failures of a discovery request: transport, HTTP status, a body that
\* is not JSON, the device list key of the backend missing, an entry without
\* uuid, and (where the entry carries the colour) an entry without colour
FetchFailure(kind, resp) ==
    \/ HttpFailure(resp) # "none"
    \/ (IF kind = DevData THEN "datastreams" ELSE "devices") \notin resp.body.has
    \/ \E i \in DOMAIN resp.body.list :
          \/ resp.body.list[i].has \cap
                (IF kind = DevData THEN {"UUID"} ELSE {"UUID", "uuid"}) = {}
          \/ kind = DevData /\ "color" \notin resp.body.list[i].has

\* C17: when the discovery request fails, fetch_devices of every backend ends
\* in an error, never in a returned list.
C17_FetchFailureRaises ==
    (Fetched /\ FetchFailure(rest.kind, rest.resp)) => ~rest.result.ok

\* "#" followed by exactly six lowercase hex digits
IsHexColour(text) ==
    /\ Len(text) = 7
    /\ text[1] = "#"
    /\ \A i \in 2..7 : text[i] \in Range(HexDigits)

\* C20: every Device that fetch_devices returns has a colour of the form "#"
\* plus six lowercase hex digits.
C20_ColourIsLowerHex6 ==
    (Fetched /\ rest.result.ok) =>
        \A i \in DOMAIN rest.result.devices :
            IsHexColour(rest.result.devices[i].color)

\* a response that supplies a device list whose entries carry a uuid under
\* one of the two key names, and a colour list beside it
ParallelColours(resp) ==
    /\ HttpFailure(resp) = "none"
    /\ {"devices", "colors"} \subseteq resp.body.has
    /\ \A i \in DOMAIN resp.body.list :
          resp.body.list[i].has \cap {"UUID", "uuid"} # {}

\* C21: for a response with a colour list parallel to the device list,
\* fetch_devices of the OmnAIScope backend returns one Device per entry in
\* the order of the response, with the uuid of the entry; the i-th device has
\* the normalized i-th colour of the colour list, a device beyond the colour
\* list has a placeholder of the colour form.
C21_ParallelColoursAligned ==
    (Fetched /\ rest.kind = OmnAI /\ ParallelColours(rest.resp)) =>
        LET list == rest.resp.body.list
            colors == rest.resp.body.colors
            devices == rest.result.devices
        IN  /\ rest.result.ok
            /\ Len(devices) = Len(list)
            /\ \A i \in DOMAIN list :
                  /\ devices[i].uuid = list[i].uuid
                  /\ IsHexColour(devices[i].color)
                  /\ (i <= Len(colors) /\ "color" \in colors[i].has
                                       /\ to_hex(colors[i].color).ok) =>
                         devices[i].color = to_hex(colors[i].color).text

====
